---- MODULE Spec2Model ----
(***************************************************************************)
(* Percolator Markets: a binary prediction market with a two-claim         *)
(* (capital senior, profit junior) settlement and an h-ratio haircut.      *)
(*                                                                         *)
(* State: the Market accounts, their vaults (lamports), the UserPosition   *)
(* accounts, the position-token balances, the GlobalConfig and the clock.  *)
(* One action per instruction; a failing instruction aborts the            *)
(* transaction, so it leaves every account as it was and only its result   *)
(* is recorded in `last`.                                                  *)
(*                                                                         *)
(* Integer widths: the checker's integers are 32 bits wide, so the         *)
(* program's u64 is modelled with 15 bits and its u128 with 30 bits.  The  *)
(* relations the code relies on are kept: the product of two u64 fits the  *)
(* u128, a u64 times 10_000 fits the u128, 10_000 fits the u16, and a u128 *)
(* need not fit the u64.                                                   *)
(***************************************************************************)
EXTENDS Integers, Sequences, FiniteSets, TLC

VARIABLES
    markets,        \* market_id -> Market account
    vault,          \* market_id -> lamports of the market's vault
    positions,      \* market_id -> user -> UserPosition account
    tokens,         \* market_id -> user -> side -> position tokens held
    config,         \* GlobalConfig account
    now,            \* Clock::get().unix_timestamp
    last,           \* the last instruction executed and its result
    accepted,       \* history: market_id -> sum of the amounts of accepted bets
    staked,         \* history: market_id -> user -> sum of the amounts of the user's accepted bets
    resolve_vault   \* history: market_id -> vault balance read by resolve_market (-1: none)

vars == <<markets, vault, positions, tokens, config, now, last, accepted, staked, resolve_vault>>

----------------------------------------------------------------------------
\* Bounds of the model.

MaxMarkets == 2
MaxTime == 1
MaxVolume == 4
MaxSurplus == 1

\* Integer types.
U64_MAX == 32767
U128_MAX == 1073741823
U16_MOD == 65536
BPS == 10000

Users == {"u1", "u2", "u3"}
Sides == {"Yes", "No"}
Outcomes == {"Unresolved", "Yes", "No"}
Mints == {"Yes", "No", "Other"}

Min(a, b) == IF a < b THEN a ELSE b

\* u64::saturating_add
saturating_add(a, b) == Min(U64_MAX, a + b)

\* u64::checked_add(..).is_none()
checked_add_fails(a, b) == a + b > U64_MAX

\* (a * b) mod 2^30 without leaving the checker's integers: a wrapping u128 multiplication.
RECURSIVE wrapping_mul(_, _)
wrapping_mul(a, b) ==
    IF b = 0 THEN 0
    ELSE LET half == wrapping_mul((a * 2) % (U128_MAX + 1), b \div 2)
         IN  (half + (IF b % 2 = 1 THEN a ELSE 0)) % (U128_MAX + 1)

RECURSIVE SumOver(_, _)
SumOver(S, f) ==
    IF S = {} THEN 0
    ELSE LET x == CHOOSE y \in S : TRUE IN f[x] + SumOver(S \ {x}, f)

----------------------------------------------------------------------------
\* state.rs: Market

winner_pool(m) ==
    IF m.outcome = "Yes" THEN m.yes_pool
    ELSE IF m.outcome = "No" THEN m.no_pool
    ELSE 0

loser_pool(m) ==
    IF m.outcome = "Yes" THEN m.no_pool
    ELSE IF m.outcome = "No" THEN m.yes_pool
    ELSE 0

\* Mutant: the ratio rounded up.
compute_h_ratio_round_up(m, vault_balance) ==
    IF m.outcome = "Unresolved" THEN BPS
    ELSE IF winner_pool(m) = 0 THEN BPS
    ELSE LET total_claims == saturating_add(winner_pool(m), loser_pool(m))
         IN  IF vault_balance >= total_claims THEN BPS
             ELSE ((vault_balance * BPS + total_claims - 1) \div total_claims) % U16_MOD

compute_h_ratio(m, vault_balance) ==
    IF m.outcome = "Unresolved" THEN BPS
    ELSE IF winner_pool(m) = 0 THEN BPS
    ELSE LET total_claims == saturating_add(winner_pool(m), loser_pool(m))
         IN  IF vault_balance >= total_claims THEN BPS
             ELSE ((vault_balance * BPS) \div total_claims) % U16_MOD

\* profit = (user_stake as u128).checked_mul(loser_pool as u128).unwrap_or(0) / winner_pool
profit_share(m, user_stake) ==
    (IF user_stake * loser_pool(m) > U128_MAX THEN 0 ELSE user_stake * loser_pool(m))
        \div winner_pool(m)

\* `profit * self.h_ratio_bps as u128` leaves the u128: a panic in a build with
\* overflow checks, a wrapped product in a build without.
haircut_overflows(m, user_stake) ==
    /\ m.outcome # "Unresolved"
    /\ winner_pool(m) # 0
    /\ m.h_ratio_bps > 0
    /\ profit_share(m, user_stake) > U128_MAX \div m.h_ratio_bps

profit_after_h(m, user_stake) ==
    IF haircut_overflows(m, user_stake)
    THEN wrapping_mul(profit_share(m, user_stake), m.h_ratio_bps) \div BPS
    ELSE (profit_share(m, user_stake) * m.h_ratio_bps) \div BPS

\* `profit_after_h as u64`: the low 64 bits.
as_u64(x) == x % (U64_MAX + 1)

\* Mutant: the haircut applied to capital and profit alike.
calculate_payout_haircut_all(m, user_stake) ==
    IF m.outcome = "Unresolved" THEN 0
    ELSE IF winner_pool(m) = 0 THEN 0
    ELSE as_u64((saturating_add(user_stake, as_u64(profit_share(m, user_stake)))
                    * m.h_ratio_bps) \div BPS)

calculate_payout(m, user_stake) ==
    IF m.outcome = "Unresolved" THEN 0
    ELSE IF winner_pool(m) = 0 THEN 0
    ELSE saturating_add(user_stake, as_u64(profit_after_h(m, user_stake)))


is_winner(m, p) ==
    \/ m.outcome = "Yes" /\ p.side = "Yes"
    \/ m.outcome = "No" /\ p.side = "No"

----------------------------------------------------------------------------
\* Accounts as the instructions find them.

NoPosition == [side |-> "Yes", deposited |-> 0, settled |-> FALSE, payout |-> 0]

NoTokens == [s \in Sides |-> 0]

\* A UserPosition account exists once init_if_needed has created it in a
\* place_bet that succeeded; every such bet leaves deposited > 0.
position_exists(p) == p.deposited > 0

token_supply(id, side) == SumOver(Users, [u \in Users |-> tokens[id][u][side]])

Called(op, id, user, result) ==
    last' = [op |-> op, market |-> id, user |-> user, result |-> result]

Init ==
    /\ markets = [i \in {} |-> 0]
    /\ vault = [i \in {} |-> 0]
    /\ positions = [i \in {} |-> 0]
    /\ tokens = [i \in {} |-> 0]
    /\ accepted = [i \in {} |-> 0]
    /\ staked = [i \in {} |-> 0]
    /\ resolve_vault = [i \in {} |-> 0]
    /\ config = [next_market_id |-> 0, total_markets |-> 0, total_volume |-> 0]
    /\ now = 0
    /\ last = [op |-> "init", market |-> -1, user |-> "none", result |-> "Ok"]

\* Extends a map over market ids by one entry.
with_entry(f, id, v) == [i \in DOMAIN f \cup {id} |-> IF i = id THEN v ELSE f[i]]

----------------------------------------------------------------------------
\* create_market

MAX_QUESTION_LEN == 256

\* Mutant: the id taken from the counter after a decrement.
new_market_stale_id(id, creator, oracle, deadline) ==
    [ market_id |-> IF id > 0 THEN id - 1 ELSE 0, creator |-> creator, oracle |-> oracle,
      deadline |-> deadline,
      status |-> "Open", outcome |-> "Unresolved", yes_pool |-> 0, no_pool |-> 0,
      h_ratio_bps |-> BPS, settled_amount |-> 0, settlements_count |-> 0 ]

new_market(id, creator, oracle, deadline) ==
    [ market_id |-> id, creator |-> creator, oracle |-> oracle, deadline |-> deadline,
      status |-> "Open", outcome |-> "Unresolved", yes_pool |-> 0, no_pool |-> 0,
      h_ratio_bps |-> BPS, settled_amount |-> 0, settlements_count |-> 0 ]

\* Mutant: a deadline equal to the current time accepted.
create_market_result_deadline_now(question_len, deadline) ==
    IF question_len > MAX_QUESTION_LEN THEN "QuestionTooLong"
    ELSE IF ~(deadline >= now) THEN "DeadlineInPast"
    ELSE IF checked_add_fails(config.next_market_id, 1) THEN "Panic"
    ELSE IF checked_add_fails(config.total_markets, 1) THEN "Panic"
    ELSE "Ok"

create_market_result(question_len, deadline) ==
    IF question_len > MAX_QUESTION_LEN THEN "QuestionTooLong"
    ELSE IF ~(deadline > now) THEN "DeadlineInPast"
    ELSE IF checked_add_fails(config.next_market_id, 1) THEN "Panic"
    ELSE IF checked_add_fails(config.total_markets, 1) THEN "Panic"
    ELSE "Ok"

CreateMarket(creator, oracle, question_len, deadline) ==
    LET id == config.next_market_id
        result == create_market_result(question_len, deadline)
    IN  /\ Called("create_market", id, creator, result)
        /\ IF result = "Ok"
           THEN /\ markets' = with_entry(markets, id, new_market(id, creator, oracle, deadline))
                /\ vault' = with_entry(vault, id, 0)
                /\ positions' = with_entry(positions, id, [u \in Users |-> NoPosition])
                /\ tokens' = with_entry(tokens, id, [u \in Users |-> NoTokens])
                /\ accepted' = with_entry(accepted, id, 0)
                /\ staked' = with_entry(staked, id, [u \in Users |-> 0])
                /\ resolve_vault' = with_entry(resolve_vault, id, -1)
                /\ config' = [config EXCEPT !.next_market_id = @ + 1, !.total_markets = @ + 1]
           ELSE UNCHANGED <<markets, vault, positions, tokens, accepted, staked, resolve_vault, config>>
        /\ UNCHANGED now

----------------------------------------------------------------------------
\* place_bet

\* Mutant: the NO pool assigned instead of added to.
pools_after_bet_overwrite(m, side, amount) ==
    IF side = "Yes" THEN [m EXCEPT !.yes_pool = @ + amount]
    ELSE [m EXCEPT !.no_pool = amount]

\* Mutant: the amount added to the pool of the other side.
pools_after_bet_swapped(m, side, amount) ==
    IF side = "Yes" THEN [m EXCEPT !.no_pool = @ + amount]
    ELSE [m EXCEPT !.yes_pool = @ + amount]

pools_after_bet(m, side, amount) ==
    IF side = "Yes" THEN [m EXCEPT !.yes_pool = @ + amount]
    ELSE [m EXCEPT !.no_pool = @ + amount]

\* Mutant: the stake replaced by the amount of the last bet.
position_after_bet_last_only(p, side, amount) ==
    [p EXCEPT !.side = IF p.deposited = 0 THEN side ELSE @,
              !.deposited = amount]

\* Mutant: the position bound again by every bet.
position_after_bet_rebound(p, side, amount) ==
    [p EXCEPT !.side = side, !.deposited = @ + amount]

position_after_bet(p, side, amount) ==
    [p EXCEPT !.side = IF p.deposited = 0 THEN side ELSE @,
              !.deposited = @ + amount]

\* Mutant: the market's status constraint left out.
place_bet_result_any_status(id, user, side, amount) ==
    LET m == markets[id]
    IN  IF ~(amount > 0) THEN "ZeroBetAmount"
        ELSE IF ~(now < m.deadline) THEN "MarketExpired"
        ELSE IF checked_add_fails(vault[id], amount) THEN "TransferFailed"
        ELSE IF checked_add_fails(token_supply(id, side), amount) THEN "TokenError"
        ELSE IF checked_add_fails(IF side = "Yes" THEN m.yes_pool ELSE m.no_pool, amount)
             THEN "Overflow"
        ELSE IF checked_add_fails(positions[id][user].deposited, amount) THEN "Overflow"
        ELSE IF checked_add_fails(config.total_volume, amount) THEN "Overflow"
        ELSE "Ok"

\* Mutant: a bet accepted at the deadline itself.
place_bet_result_at_deadline(id, user, side, amount) ==
    LET m == markets[id]
    IN  IF m.status # "Open" THEN "InvalidMarketStatus"
        ELSE IF ~(amount > 0) THEN "ZeroBetAmount"
        ELSE IF ~(now <= m.deadline) THEN "MarketExpired"
        ELSE IF checked_add_fails(vault[id], amount) THEN "TransferFailed"
        ELSE IF checked_add_fails(token_supply(id, side), amount) THEN "TokenError"
        ELSE IF checked_add_fails(IF side = "Yes" THEN m.yes_pool ELSE m.no_pool, amount)
             THEN "Overflow"
        ELSE IF checked_add_fails(positions[id][user].deposited, amount) THEN "Overflow"
        ELSE IF checked_add_fails(config.total_volume, amount) THEN "Overflow"
        ELSE "Ok"

\* Mutant: the global volume added to without the overflow check.
place_bet_result_volume_unchecked(id, user, side, amount) ==
    LET m == markets[id]
    IN  IF m.status # "Open" THEN "InvalidMarketStatus"
        ELSE IF ~(amount > 0) THEN "ZeroBetAmount"
        ELSE IF ~(now < m.deadline) THEN "MarketExpired"
        ELSE IF checked_add_fails(vault[id], amount) THEN "TransferFailed"
        ELSE IF checked_add_fails(token_supply(id, side), amount) THEN "TokenError"
        ELSE IF checked_add_fails(IF side = "Yes" THEN m.yes_pool ELSE m.no_pool, amount)
             THEN "Overflow"
        ELSE IF checked_add_fails(positions[id][user].deposited, amount) THEN "Overflow"
        ELSE "Ok"

place_bet_result(id, user, side, amount) ==
    LET m == markets[id]
    IN  IF m.status # "Open" THEN "InvalidMarketStatus"
        ELSE IF ~(amount > 0) THEN "ZeroBetAmount"
        ELSE IF ~(now < m.deadline) THEN "MarketExpired"
        ELSE IF checked_add_fails(vault[id], amount) THEN "TransferFailed"
        ELSE IF checked_add_fails(token_supply(id, side), amount) THEN "TokenError"
        ELSE IF checked_add_fails(IF side = "Yes" THEN m.yes_pool ELSE m.no_pool, amount)
             THEN "Overflow"
        ELSE IF checked_add_fails(positions[id][user].deposited, amount) THEN "Overflow"
        ELSE IF checked_add_fails(config.total_volume, amount) THEN "Overflow"
        ELSE "Ok"

PlaceBet(id, user, side, amount) ==
    LET result == place_bet_result(id, user, side, amount)
    IN  /\ Called("place_bet", id, user, result)
        /\ IF result = "Ok"
           THEN /\ vault' = [vault EXCEPT ![id] = @ + amount]
                /\ tokens' = [tokens EXCEPT ![id][user][side] = @ + amount]
                /\ markets' = [markets EXCEPT ![id] = pools_after_bet(@, side, amount)]
                /\ positions' = [positions EXCEPT ![id][user] = position_after_bet(@, side, amount)]
                /\ config' = [config EXCEPT !.total_volume = @ + amount]
                /\ accepted' = [accepted EXCEPT ![id] = @ + amount]
                /\ staked' = [staked EXCEPT ![id][user] = @ + amount]
           ELSE UNCHANGED <<vault, tokens, markets, positions, config, accepted, staked>>
        /\ UNCHANGED <<now, resolve_vault>>

----------------------------------------------------------------------------
\* resolve_market

\* Mutant: the market's status constraint left out.
resolve_result_reresolve(id, caller, outcome) ==
    LET m == markets[id]
    IN  IF caller # m.oracle THEN "UnauthorizedOracle"
        ELSE IF ~(outcome # "Unresolved") THEN "InvalidOutcome"
        ELSE "Ok"

resolve_result(id, caller, outcome) ==
    LET m == markets[id]
    IN  IF caller # m.oracle THEN "UnauthorizedOracle"
        ELSE IF ~(m.status = "Open" \/ m.status = "Closed") THEN "AlreadyResolved"
        ELSE IF ~(outcome # "Unresolved") THEN "InvalidOutcome"
        ELSE "Ok"

resolved_market(m, outcome, vault_balance) ==
    LET with_outcome == [m EXCEPT !.outcome = outcome]
    IN  [with_outcome EXCEPT !.h_ratio_bps = compute_h_ratio(with_outcome, vault_balance),
                             !.status = "Resolved"]

ResolveMarket(id, caller, outcome) ==
    LET result == resolve_result(id, caller, outcome)
    IN  /\ Called("resolve_market", id, caller, result)
        /\ IF result = "Ok"
           THEN /\ markets' = [markets EXCEPT ![id] = resolved_market(@, outcome, vault[id])]
                /\ resolve_vault' = [resolve_vault EXCEPT ![id] = vault[id]]
           ELSE UNCHANGED <<markets, resolve_vault>>
        /\ UNCHANGED <<vault, positions, tokens, config, now, accepted, staked>>

----------------------------------------------------------------------------
\* cancel_market

\* Mutant: the authority constraint left out.
cancel_result_any_caller(id, caller) ==
    LET m == markets[id]
    IN  IF ~(m.status = "Open" \/ m.status = "Closed") THEN "CannotCancelResolved"
        ELSE "Ok"

cancel_result(id, caller) ==
    LET m == markets[id]
    IN  IF ~(caller = m.creator \/ caller = m.oracle) THEN "UnauthorizedCreator"
        ELSE IF ~(m.status = "Open" \/ m.status = "Closed") THEN "CannotCancelResolved"
        ELSE "Ok"

\* Mutant: the pools cleared by the cancellation.
CancelMarket_pools_cleared(id, caller) ==
    LET result == cancel_result(id, caller)
    IN  /\ Called("cancel_market", id, caller, result)
        /\ IF result = "Ok"
           THEN markets' = [markets EXCEPT ![id].status = "Cancelled",
                                           ![id].yes_pool = 0,
                                           ![id].no_pool = 0]
           ELSE UNCHANGED markets
        /\ UNCHANGED <<vault, positions, tokens, config, now, accepted, staked, resolve_vault>>

CancelMarket(id, caller) ==
    LET result == cancel_result(id, caller)
    IN  /\ Called("cancel_market", id, caller, result)
        /\ IF result = "Ok"
           THEN markets' = [markets EXCEPT ![id].status = "Cancelled"]
           ELSE UNCHANGED markets
        /\ UNCHANGED <<vault, positions, tokens, config, now, accepted, staked, resolve_vault>>

----------------------------------------------------------------------------
\* settle

\* Mutant: the safety check left out.
vault_check_skipped(payout, vault_balance) == TRUE

vault_check(payout, vault_balance) == payout <= vault_balance

\* Mutant: the position's `!settled` constraint left out.
settle_result_resettle(id, user, overflow_checks) ==
    LET m == markets[id]
        p == positions[id][user]
        payout == calculate_payout(m, p.deposited)
    IN  IF ~position_exists(p) THEN "AccountNotInitialized"
        ELSE IF m.status # "Resolved" THEN "InvalidMarketStatus"
        ELSE IF ~is_winner(m, p) THEN "LosingSide"
        ELSE IF haircut_overflows(m, p.deposited) /\ overflow_checks THEN "Panic"
        ELSE IF ~vault_check(payout, vault[id]) THEN "VaultInsolvency"
        ELSE IF payout > vault[id] THEN "InsufficientFunds"
        ELSE IF checked_add_fails(m.settled_amount, payout) THEN "Overflow"
        ELSE IF checked_add_fails(m.settlements_count, 1) THEN "Overflow"
        ELSE "Ok"

\* Mutant: the winning-side requirement left out.
settle_result_pay_losers(id, user, overflow_checks) ==
    LET m == markets[id]
        p == positions[id][user]
        payout == calculate_payout(m, p.deposited)
    IN  IF ~position_exists(p) THEN "AccountNotInitialized"
        ELSE IF m.status # "Resolved" THEN "InvalidMarketStatus"
        ELSE IF p.settled THEN "AlreadySettled"
        ELSE IF haircut_overflows(m, p.deposited) /\ overflow_checks THEN "Panic"
        ELSE IF ~vault_check(payout, vault[id]) THEN "VaultInsolvency"
        ELSE IF payout > vault[id] THEN "InsufficientFunds"
        ELSE IF checked_add_fails(m.settled_amount, payout) THEN "Overflow"
        ELSE IF checked_add_fails(m.settlements_count, 1) THEN "Overflow"
        ELSE "Ok"

\* overflow_checks: whether the build panics on arithmetic overflow.
settle_result(id, user, overflow_checks) ==
    LET m == markets[id]
        p == positions[id][user]
        payout == calculate_payout(m, p.deposited)
    IN  IF ~position_exists(p) THEN "AccountNotInitialized"
        ELSE IF m.status # "Resolved" THEN "InvalidMarketStatus"
        ELSE IF p.settled THEN "AlreadySettled"
        ELSE IF ~is_winner(m, p) THEN "LosingSide"
        ELSE IF haircut_overflows(m, p.deposited) /\ overflow_checks THEN "Panic"
        ELSE IF ~vault_check(payout, vault[id]) THEN "VaultInsolvency"
        ELSE IF payout > vault[id] THEN "InsufficientFunds"
        ELSE IF checked_add_fails(m.settled_amount, payout) THEN "Overflow"
        ELSE IF checked_add_fails(m.settlements_count, 1) THEN "Overflow"
        ELSE "Ok"

\* Mutant: the h-ratio computed again from the vault balance left by the payout.
Settle_h_recomputed(id, user, overflow_checks) ==
    LET result == settle_result(id, user, overflow_checks)
        payout == calculate_payout(markets[id], positions[id][user].deposited)
    IN  /\ Called("settle", id, user, result)
        /\ IF result = "Ok"
           THEN /\ vault' = [vault EXCEPT ![id] = @ - payout]
                /\ positions' = [positions EXCEPT ![id][user].settled = TRUE,
                                                  ![id][user].payout = payout]
                /\ markets' = [markets EXCEPT
                                  ![id].settled_amount = @ + payout,
                                  ![id].settlements_count = @ + 1,
                                  ![id].h_ratio_bps =
                                      compute_h_ratio(markets[id], vault[id] - payout)]
           ELSE UNCHANGED <<vault, positions, markets>>
        /\ UNCHANGED <<tokens, config, now, accepted, staked, resolve_vault>>

\* Mutant: the market marked Settled by a payout.
Settle_marks_settled(id, user, overflow_checks) ==
    LET result == settle_result(id, user, overflow_checks)
        payout == calculate_payout(markets[id], positions[id][user].deposited)
    IN  /\ Called("settle", id, user, result)
        /\ IF result = "Ok"
           THEN /\ vault' = [vault EXCEPT ![id] = @ - payout]
                /\ positions' = [positions EXCEPT ![id][user].settled = TRUE,
                                                  ![id][user].payout = payout]
                /\ markets' = [markets EXCEPT ![id].settled_amount = @ + payout,
                                              ![id].settlements_count = @ + 1,
                                              ![id].status = "Settled"]
           ELSE UNCHANGED <<vault, positions, markets>>
        /\ UNCHANGED <<tokens, config, now, accepted, staked, resolve_vault>>

\* Mutant: a payout left out of the count of settlements.
Settle_uncounted(id, user, overflow_checks) ==
    LET result == settle_result(id, user, overflow_checks)
        payout == calculate_payout(markets[id], positions[id][user].deposited)
    IN  /\ Called("settle", id, user, result)
        /\ IF result = "Ok"
           THEN /\ vault' = [vault EXCEPT ![id] = @ - payout]
                /\ positions' = [positions EXCEPT ![id][user].settled = TRUE,
                                                  ![id][user].payout = payout]
                /\ markets' = [markets EXCEPT ![id].settled_amount = @ + payout]
           ELSE UNCHANGED <<vault, positions, markets>>
        /\ UNCHANGED <<tokens, config, now, accepted, staked, resolve_vault>>

\* Mutant: the stake paid out taken off the pool of the winning side.
Settle_pool_debited(id, user, overflow_checks) ==
    LET result == settle_result(id, user, overflow_checks)
        stake == positions[id][user].deposited
        payout == calculate_payout(markets[id], stake)
    IN  /\ Called("settle", id, user, result)
        /\ IF result = "Ok"
           THEN /\ vault' = [vault EXCEPT ![id] = @ - payout]
                /\ positions' = [positions EXCEPT ![id][user].settled = TRUE,
                                                  ![id][user].payout = payout]
                /\ markets' = [markets EXCEPT
                                  ![id].settled_amount = @ + payout,
                                  ![id].settlements_count = @ + 1,
                                  ![id].yes_pool = IF markets[id].outcome = "Yes"
                                                   THEN @ - stake ELSE @,
                                  ![id].no_pool = IF markets[id].outcome = "No"
                                                  THEN @ - stake ELSE @]
           ELSE UNCHANGED <<vault, positions, markets>>
        /\ UNCHANGED <<tokens, config, now, accepted, staked, resolve_vault>>

Settle(id, user, overflow_checks) ==
    LET result == settle_result(id, user, overflow_checks)
        payout == calculate_payout(markets[id], positions[id][user].deposited)
    IN  /\ Called("settle", id, user, result)
        /\ IF result = "Ok"
           THEN /\ vault' = [vault EXCEPT ![id] = @ - payout]
                /\ positions' = [positions EXCEPT ![id][user].settled = TRUE,
                                                  ![id][user].payout = payout]
                /\ markets' = [markets EXCEPT ![id].settled_amount = @ + payout,
                                              ![id].settlements_count = @ + 1]
           ELSE UNCHANGED <<vault, positions, markets>>
        /\ UNCHANGED <<tokens, config, now, accepted, staked, resolve_vault>>

----------------------------------------------------------------------------
\* claim_refund

\* token::burn from the caller's token account of the mint the caller names:
\* the market's YES or NO mint, or any other mint (position_mint is unconstrained).
burn_fails(id, user, mint, amount) ==
    mint \in Sides /\ tokens[id][user][mint] < amount

\* Mutant: the market's status constraint left out.
claim_refund_result_any_status(id, user, mint) ==
    LET m == markets[id]
        p == positions[id][user]
    IN  IF ~position_exists(p) THEN "AccountNotInitialized"
        ELSE IF p.settled THEN "AlreadySettled"
        ELSE IF burn_fails(id, user, mint, p.deposited) THEN "TokenError"
        ELSE IF p.deposited > vault[id] THEN "InsufficientFunds"
        ELSE "Ok"

claim_refund_result(id, user, mint) ==
    LET m == markets[id]
        p == positions[id][user]
    IN  IF ~position_exists(p) THEN "AccountNotInitialized"
        ELSE IF m.status # "Cancelled" THEN "InvalidMarketStatus"
        ELSE IF p.settled THEN "AlreadySettled"
        ELSE IF burn_fails(id, user, mint, p.deposited) THEN "TokenError"
        ELSE IF p.deposited > vault[id] THEN "InsufficientFunds"
        ELSE "Ok"

\* Mutant: the refund counted in the market's settlement totals, as settle does.
ClaimRefund_counted(id, user, mint) ==
    LET result == claim_refund_result(id, user, mint)
        refund_amount == positions[id][user].deposited
    IN  /\ Called("claim_refund", id, user, result)
        /\ IF result = "Ok"
           THEN /\ tokens' = IF mint \in Sides
                             THEN [tokens EXCEPT ![id][user][mint] = @ - refund_amount]
                             ELSE tokens
                /\ vault' = [vault EXCEPT ![id] = @ - refund_amount]
                /\ positions' = [positions EXCEPT ![id][user].settled = TRUE,
                                                  ![id][user].payout = refund_amount]
                /\ markets' = [markets EXCEPT ![id].settled_amount = @ + refund_amount,
                                              ![id].settlements_count = @ + 1]
           ELSE UNCHANGED <<tokens, vault, positions, markets>>
        /\ UNCHANGED <<config, now, accepted, staked, resolve_vault>>

ClaimRefund(id, user, mint) ==
    LET result == claim_refund_result(id, user, mint)
        refund_amount == positions[id][user].deposited
    IN  /\ Called("claim_refund", id, user, result)
        /\ IF result = "Ok"
           THEN /\ tokens' = IF mint \in Sides
                             THEN [tokens EXCEPT ![id][user][mint] = @ - refund_amount]
                             ELSE tokens
                /\ vault' = [vault EXCEPT ![id] = @ - refund_amount]
                /\ positions' = [positions EXCEPT ![id][user].settled = TRUE,
                                                  ![id][user].payout = refund_amount]
           ELSE UNCHANGED <<tokens, vault, positions>>
        /\ UNCHANGED <<markets, config, now, accepted, staked, resolve_vault>>

----------------------------------------------------------------------------
\* The environment: the clock, and lamports moved into or out of a vault by
\* something other than this program.

Tick ==
    /\ now' = now + 1
    /\ Called("tick", -1, "none", "Ok")
    /\ UNCHANGED <<markets, vault, positions, tokens, config, accepted, staked, resolve_vault>>

ExternalTransfer(id, delta) ==
    /\ markets[id].status = "Open"
    /\ vault[id] + delta >= 0
    /\ vault[id] + delta <= U64_MAX
    /\ vault' = [vault EXCEPT ![id] = @ + delta]
    /\ Called("external", id, "none", "Ok")
    /\ UNCHANGED <<markets, positions, tokens, config, now, accepted, staked, resolve_vault>>

----------------------------------------------------------------------------
\* Inputs.

\* The markets the instructions below are applied to; the others are only created.
Targets == {0}
Creators == {"u1"}
Bettors == {"u1", "u3"}
Oracles == {"u2"}
QuestionLens == {256, 257}
Deadlines == {0, 1}
BetAmounts == {0, 1, 2}
Deltas == {-1, 1}
WideAmounts == {(U64_MAX + 1) \div 4}

CreateStep(max_markets) ==
    \E c \in Creators, o \in Oracles, q \in QuestionLens, d \in Deadlines :
        /\ config.next_market_id < max_markets
        /\ CreateMarket(c, o, q, d)

BetStep(amounts, max_volume) ==
    \E id \in DOMAIN markets \cap Targets, u \in Bettors, s \in Sides, a \in amounts :
        /\ PlaceBet(id, u, s, a)
        /\ config'.total_volume <= max_volume

\* Bets of bettors who never name the side opposite to their position's.
SameSideBetStep(amounts, max_volume) ==
    \E id \in DOMAIN markets \cap Targets, u \in Bettors, s \in Sides, a \in amounts :
        /\ positions[id][u].deposited = 0 \/ s = positions[id][u].side
        /\ PlaceBet(id, u, s, a)
        /\ config'.total_volume <= max_volume

ResolveStep ==
    \E id \in DOMAIN markets \cap Targets, u \in Users, o \in Outcomes : ResolveMarket(id, u, o)

CancelStep ==
    \E id \in DOMAIN markets \cap Targets, u \in Users : CancelMarket(id, u)

SettleStep ==
    \E id \in DOMAIN markets \cap Targets, u \in Bettors, oc \in BOOLEAN : Settle(id, u, oc)

RefundStep ==
    \E id \in DOMAIN markets \cap Targets, u \in Bettors, mint \in Mints : ClaimRefund(id, u, mint)

TickStep == now < MaxTime /\ Tick

DrainStep ==
    \E id \in DOMAIN markets \cap Targets, d \in Deltas :
        /\ ExternalTransfer(id, d)
        /\ vault'[id] <= accepted[id] + MaxSurplus

\* The program and its clock.
Next ==
    \/ CreateStep(MaxMarkets)
    \/ BetStep(BetAmounts, MaxVolume)
    \/ ResolveStep
    \/ CancelStep
    \/ SettleStep
    \/ RefundStep
    \/ TickStep

Spec == Init /\ [][Next]_vars

\* One market whose bettors keep to their side, together with transfers into
\* and out of its vault, while it is still open, made by something other than
\* the program.
NextDrain ==
    \/ CreateStep(1)
    \/ SameSideBetStep(BetAmounts, MaxVolume)
    \/ ResolveStep
    \/ CancelStep
    \/ SettleStep
    \/ RefundStep
    \/ DrainStep

SpecDrain == Init /\ [][NextDrain]_vars

\* One market with bets of a quarter of the amount type's range: the pools,
\* the stakes and the volume reach the end of the type.
NextWide ==
    \/ CreateStep(1)
    \/ BetStep(WideAmounts, U64_MAX)
    \/ ResolveStep
    \/ CancelStep
    \/ SettleStep
    \/ RefundStep

SpecWide == Init /\ [][NextWide]_vars

\* Markets that all take bets of a quarter of the amount type's range: the
\* global volume reaches the end of the type while a vault can still take a
\* deposit.
VolumeTargets == {0, 1}

VolumeBetStep ==
    \E id \in DOMAIN markets \cap VolumeTargets, u \in Bettors, s \in Sides, a \in WideAmounts :
        PlaceBet(id, u, s, a)

NextVolume ==
    \/ CreateStep(MaxMarkets)
    \/ VolumeBetStep
    \/ ResolveStep
    \/ CancelStep
    \/ SettleStep
    \/ RefundStep

SpecVolume == Init /\ [][NextVolume]_vars

\* Markets created by any user for any oracle, in any order, while the clock
\* runs and the first market is cancelled.
AnyCreateStep ==
    \E c \in Users, o \in Users, q \in QuestionLens, d \in Deadlines :
        /\ config.next_market_id < MaxMarkets
        /\ CreateMarket(c, o, q, d)

NextCreate ==
    \/ AnyCreateStep
    \/ CancelStep
    \/ TickStep

SpecCreate == Init /\ [][NextCreate]_vars

----------------------------------------------------------------------------
\* Properties.

\* The position a settle or claim_refund recorded in `last` was called on.
LastMarket == markets[last.market]
LastPosition == positions[last.market][last.user]

\* A position on which settle gets as far as computing a payout.
Payable(id, u) ==
    /\ markets[id].status = "Resolved"
    /\ position_exists(positions[id][u])
    /\ ~positions[id][u].settled
    /\ is_winner(markets[id], positions[id][u])

\* C1: the vault balance never goes below zero: a settle whose computed payout
\* exceeds the vault balance it reads fails with VaultInsolvency and moves
\* nothing, and a successful settle withdraws exactly its payout, which is at
\* most the vault balance read in that call.
C1_SettleStep ==
    /\ \A id \in DOMAIN vault' : vault'[id] >= 0
    /\ last'.op = "settle" =>
          LET id == last'.market
              u == last'.user
              payout == calculate_payout(markets[id], positions[id][u].deposited)
          IN  /\ (Payable(id, u) /\ last'.result # "Panic" /\ payout > vault[id]) =>
                    /\ last'.result = "VaultInsolvency"
                    /\ UNCHANGED <<markets, vault, positions, tokens, config>>
              /\ last'.result = "Ok" =>
                    /\ payout <= vault[id]
                    /\ vault'[id] = vault[id] - payout

C1_SettleNeverOverdraws == [][C1_SettleStep]_vars

C1_Witness ==
    /\ last.op = "settle"
    /\ last.result = "VaultInsolvency"
    /\ calculate_payout(LastMarket, LastPosition.deposited) > vault[last.market]

\* C2: with the vault changed only by place_bet, settle and claim_refund, no
\* settle on an unsettled winning position of a Resolved market fails with
\* VaultInsolvency.
C2_NoVaultInsolvency ==
    \A id \in DOMAIN markets, u \in Users :
        Payable(id, u) => settle_result(id, u, TRUE) # "VaultInsolvency"

\* C3: principal is never haircut: when the vault balance read by
\* resolve_market is at least winner_pool and only settle changes the vault
\* afterwards, every settle of a winning position succeeds, in every order, and
\* pays at least the position's stake.
C3_PrincipalNeverHaircut ==
    \A id \in DOMAIN markets, u \in Users :
        (Payable(id, u) /\ resolve_vault[id] >= winner_pool(markets[id])) =>
            /\ settle_result(id, u, TRUE) = "Ok"
            /\ calculate_payout(markets[id], positions[id][u].deposited)
                  >= positions[id][u].deposited

Winners(id) ==
    {u \in Users : position_exists(positions[id][u]) /\ is_winner(markets[id], positions[id][u])}

\* C4: in a Resolved market the payouts of all winning positions together
\* never exceed the vault balance that resolve_market read, also when that
\* balance was below winner_pool + loser_pool.  Stated for the balances that
\* cover the principal (at least winner_pool): below that the stakes alone
\* exceed the balance.
C4_PayoutsWithinResolveBalance ==
    \A id \in DOMAIN markets :
        (markets[id].status = "Resolved" /\ resolve_vault[id] >= winner_pool(markets[id])) =>
            SumOver(Winners(id),
                    [u \in Users |-> calculate_payout(markets[id], positions[id][u].deposited)])
                <= resolve_vault[id]

\* C5: in a Resolved market settled_amount is at most the vault balance that
\* existed when resolve_market succeeded.
C5_SettledWithinResolveBalance ==
    \A id \in DOMAIN markets :
        markets[id].status = "Resolved" =>
            markets[id].settled_amount <= resolve_vault[id]

C5_Witness ==
    /\ last.op = "settle"
    /\ last.result = "VaultInsolvency"
    /\ LastMarket.settled_amount > 0
    /\ LastMarket.settled_amount <= resolve_vault[last.market]

\* C6: for a winning position of a Resolved market whose vault balance at
\* resolution was at least winner_pool, the payout computed (and the payout a
\* successful settle records) is at least the stake, whatever h_ratio_bps is.
HRatios == {0, 1, 3333, 5000, 9999, BPS}

C6_PayoutCoversStake ==
    \A id \in DOMAIN markets : \A u \in Winners(id) :
        (markets[id].status = "Resolved" /\ resolve_vault[id] >= winner_pool(markets[id])) =>
            /\ \A h \in HRatios \cup {markets[id].h_ratio_bps} :
                  calculate_payout([markets[id] EXCEPT !.h_ratio_bps = h],
                                   positions[id][u].deposited)
                      >= positions[id][u].deposited
            /\ positions[id][u].settled =>
                  /\ positions[id][u].payout >= positions[id][u].deposited
                  /\ positions[id][u].payout
                        = calculate_payout(markets[id], positions[id][u].deposited)

C6_Witness ==
    /\ last.op = "settle"
    /\ last.result = "Ok"
    /\ LastMarket.h_ratio_bps < BPS
    /\ resolve_vault[last.market] >= winner_pool(LastMarket)
    /\ LastPosition.settled
    /\ LastPosition.payout >= LastPosition.deposited

\* C7: after resolve_market h_ratio_bps is in [0, 10000]; it is 10000 when
\* winner_pool = 0 or the vault balance read is at least the saturating sum
\* winner_pool + loser_pool, and otherwise the quotient balance * 10000 /
\* (winner_pool + loser_pool) rounded down.
ScenarioMarket ==
    [new_market(0, "u1", "u2", 1) EXCEPT !.outcome = "Yes", !.yes_pool = 1000, !.no_pool = 500]

C7_HRatioValue ==
    /\ compute_h_ratio(ScenarioMarket, 1200) = 8000
    /\ compute_h_ratio(ScenarioMarket, 1500) = BPS
    /\ \A id \in DOMAIN markets :
          markets[id].status = "Resolved" =>
              LET h == markets[id].h_ratio_bps
                  B == resolve_vault[id]
                  W == winner_pool(markets[id])
                  T == Min(U64_MAX, W + loser_pool(markets[id]))
              IN  /\ h \in 0..BPS
                  /\ (W = 0 \/ B >= T) => h = BPS
                  /\ (W > 0 /\ B < T) => (h * T <= B * BPS /\ B * BPS < (h + 1) * T)

C7_Witness ==
    /\ last.op = "resolve_market"
    /\ last.result = "Ok"
    /\ LastMarket.h_ratio_bps > 0
    /\ LastMarket.h_ratio_bps < BPS
    /\ LastMarket.h_ratio_bps * (LastMarket.yes_pool + LastMarket.no_pool)
          < resolve_vault[last.market] * BPS

\* C8: a successful settle of a position with stake s pays
\* min(MAX, s + floor(floor(s * L / W) * h / 10000)): nothing wraps around or is
\* cut to a narrower width.
C8_SettlePaysFormula ==
    (last.op = "settle" /\ last.result = "Ok") =>
        LET s == LastPosition.deposited
            W == winner_pool(LastMarket)
            L == loser_pool(LastMarket)
            h == LastMarket.h_ratio_bps
        IN  LastPosition.payout = Min(U64_MAX, s + ((((s * L) \div W) * h) \div BPS))

\* C9: yes_pool + no_pool is exactly the sum of the amounts of the accepted
\* bets on the market.
C9_PoolsSumAccepted ==
    \A id \in DOMAIN markets :
        markets[id].yes_pool + markets[id].no_pool = accepted[id]

C9_Witness ==
    /\ last.op = "place_bet"
    /\ last.result # "Ok"
    /\ LastMarket.yes_pool > 0
    /\ LastMarket.no_pool > 0
    /\ accepted[last.market] >= 3
    /\ \E u \in Users : positions[last.market][u].deposited >= 3

\* C10, as claimed: every settle or claim_refund on a settled position fails
\* with AlreadySettled.
C10_AlwaysAlreadySettled ==
    (last.op \in {"settle", "claim_refund"} /\ last.result # "Ok" /\ LastPosition.settled) =>
        last.result = "AlreadySettled"

\* The status a market must have for the instruction to pass its constraint.
RequiredStatus(op) == IF op = "settle" THEN "Resolved" ELSE "Cancelled"

\* C10, amended: the settled flag only goes from false to true; a settle or
\* claim_refund on a settled position fails, with AlreadySettled when the
\* market has the status the instruction requires and with InvalidMarketStatus
\* otherwise, and changes no account; a position is paid at most once.
C10_SettledStep ==
    /\ \A id \in DOMAIN positions, u \in Users :
          positions[id][u].settled => positions'[id][u].settled
    /\ last'.op \in {"settle", "claim_refund"} =>
          LET id == last'.market
              u == last'.user
          IN  /\ positions[id][u].settled =>
                    /\ last'.result = IF markets[id].status = RequiredStatus(last'.op)
                                      THEN "AlreadySettled"
                                      ELSE "InvalidMarketStatus"
                    /\ UNCHANGED <<markets, vault, positions, tokens, config>>
              /\ last'.result = "Ok" =>
                    /\ ~positions[id][u].settled
                    /\ positions'[id][u].settled

C10_SettledOnce == [][C10_SettledStep]_vars

C10_Witness ==
    /\ last.op \in {"settle", "claim_refund"}
    /\ LastPosition.settled
    /\ last.result = "AlreadySettled"

Final == {"Resolved", "Cancelled"}

\* C11, as claimed: every resolve_market on a Resolved or Cancelled market
\* fails with AlreadyResolved and every cancel_market on one fails with
\* CannotCancelResolved.
C11_FinalAlwaysNamed ==
    /\ (last.op = "resolve_market" /\ last.result # "Ok" /\ LastMarket.status \in Final) =>
          last.result = "AlreadyResolved"
    /\ (last.op = "cancel_market" /\ last.result # "Ok" /\ LastMarket.status \in Final) =>
          last.result = "CannotCancelResolved"

\* C11, amended: a status changes only from Open or Closed, to Resolved by a
\* successful resolve_market or to Cancelled by a successful cancel_market, and
\* never changes once Resolved or Cancelled; on such a market resolve_market
\* fails with AlreadyResolved when called by the oracle (UnauthorizedOracle
\* otherwise), cancel_market fails with CannotCancelResolved when called by the
\* creator or the oracle (UnauthorizedCreator otherwise), and place_bet is
\* rejected.
C11_StatusStep ==
    /\ \A id \in DOMAIN markets :
          LET s == markets[id].status
              t == markets'[id].status
          IN  /\ s \in Final => t = s
              /\ s # t =>
                    /\ s \in {"Open", "Closed"}
                    /\ last'.market = id
                    /\ last'.result = "Ok"
                    /\ \/ t = "Resolved" /\ last'.op = "resolve_market"
                       \/ t = "Cancelled" /\ last'.op = "cancel_market"
    /\ (last'.op \in {"resolve_market", "cancel_market", "place_bet"}
           /\ markets[last'.market].status \in Final) =>
          LET m == markets[last'.market]
          IN  /\ UNCHANGED <<markets, vault, positions, tokens, config>>
              /\ last'.op = "resolve_market" =>
                    last'.result = IF last'.user = m.oracle
                                   THEN "AlreadyResolved" ELSE "UnauthorizedOracle"
              /\ last'.op = "cancel_market" =>
                    last'.result = IF last'.user \in {m.creator, m.oracle}
                                   THEN "CannotCancelResolved" ELSE "UnauthorizedCreator"
              /\ last'.op = "place_bet" => last'.result = "InvalidMarketStatus"

C11_StatusTransitions == [][C11_StatusStep]_vars

C11_Witness ==
    /\ last.op = "resolve_market"
    /\ last.result = "AlreadyResolved"
    /\ LastMarket.status = "Cancelled"

\* C12: resolve_market succeeds only for the market's oracle and any other
\* caller gets UnauthorizedOracle; cancel_market succeeds only for the market's
\* creator or oracle and any other caller gets UnauthorizedCreator; an
\* unauthorized call changes no account.
C12_AuthorityStep ==
    /\ last'.op = "resolve_market" =>
          LET m == markets[last'.market]
          IN  /\ last'.result = "Ok" => last'.user = m.oracle
              /\ last'.user # m.oracle =>
                    /\ last'.result = "UnauthorizedOracle"
                    /\ UNCHANGED <<markets, vault, positions, tokens, config>>
    /\ last'.op = "cancel_market" =>
          LET m == markets[last'.market]
          IN  /\ last'.result = "Ok" => last'.user \in {m.creator, m.oracle}
              /\ last'.user \notin {m.creator, m.oracle} =>
                    /\ last'.result = "UnauthorizedCreator"
                    /\ UNCHANGED <<markets, vault, positions, tokens, config>>

C12_AuthorityFirst == [][C12_AuthorityStep]_vars

C12_Witness ==
    /\ last.op = "cancel_market"
    /\ last.result = "UnauthorizedCreator"
    /\ LastMarket.status = "Open"
    /\ LastMarket.yes_pool > 0
    /\ vault[last.market] > 0

\* C13: a place_bet on an Open market with amount > 0 at a time greater than or
\* equal to the deadline is rejected with MarketExpired and changes neither
\* pool, nor the position, the vault or the global volume; a bet at a time
\* strictly below the deadline is never rejected with MarketExpired.
C13_ExpiryStep ==
    last'.op = "place_bet" =>
        LET id == last'.market
            u == last'.user
            m == markets[id]
        IN  /\ \A s \in Sides, a \in BetAmounts \cup WideAmounts :
                  /\ (m.status = "Open" /\ a > 0 /\ now >= m.deadline) =>
                        place_bet_result(id, u, s, a) = "MarketExpired"
                  /\ now < m.deadline => place_bet_result(id, u, s, a) # "MarketExpired"
            /\ (m.status = "Open" /\ now >= m.deadline) =>
                  /\ last'.result \in {"ZeroBetAmount", "MarketExpired"}
                  /\ UNCHANGED <<markets, vault, positions, tokens, config>>
            /\ last'.result = "MarketExpired" =>
                  /\ m.status = "Open"
                  /\ now >= m.deadline
                  /\ UNCHANGED <<markets, vault, positions, tokens, config>>

C13_MarketExpired == [][C13_ExpiryStep]_vars

C13_Witness ==
    /\ last.op = "place_bet"
    /\ last.result = "MarketExpired"
    /\ now = LastMarket.deadline
    /\ LastMarket.yes_pool > 0
    /\ LastPosition.deposited > 0

\* C14: in a Cancelled market a successful claim_refund on an unsettled
\* position withdraws from the vault exactly position.deposited, which is the
\* sum of that participant's accepted bets on the market, sets settled and
\* records that amount as the payout, and leaves the market account (pools,
\* h_ratio_bps, settled_amount, settlements_count) unchanged.
C14_RefundStep ==
    (last'.op = "claim_refund" /\ last'.result = "Ok") =>
        LET id == last'.market
            u == last'.user
            p == positions[id][u]
        IN  /\ markets[id].status = "Cancelled"
            /\ ~p.settled
            /\ p.deposited = staked[id][u]
            /\ vault'[id] = vault[id] - p.deposited
            /\ positions'[id][u] = [p EXCEPT !.settled = TRUE, !.payout = p.deposited]
            /\ \A v \in Users \ {u} : positions'[id][v] = positions[id][v]
            /\ UNCHANGED <<markets, config>>

C14_RefundIsDeposit == [][C14_RefundStep]_vars

C14_Witness ==
    /\ last.op = "claim_refund"
    /\ last.result = "Ok"
    /\ LastMarket.status = "Cancelled"
    /\ LastPosition.settled
    /\ LastPosition.payout = staked[last.market][last.user]
    /\ LastPosition.payout >= 2
    /\ LastMarket.yes_pool + LastMarket.no_pool > LastPosition.payout

\* A position of a Resolved market bound to the side that lost.
Losing(id, u) ==
    /\ markets[id].status = "Resolved"
    /\ position_exists(positions[id][u])
    /\ ~is_winner(markets[id], positions[id][u])

\* C15: in a Resolved market settle on an unsettled position of the losing
\* side fails with LosingSide, pays nothing and changes no account; no losing
\* position is ever settled.
C15_LosingStep ==
    /\ \A id \in DOMAIN markets, u \in Users :
          Losing(id, u) => ~positions[id][u].settled /\ positions[id][u].payout = 0
    /\ (last'.op = "settle" /\ Losing(last'.market, last'.user)) =>
          /\ last'.result = "LosingSide"
          /\ UNCHANGED <<markets, vault, positions, tokens, config>>

C15_LosingSideNeverSettles == [][C15_LosingStep]_vars

C15_Witness ==
    /\ last.op = "settle"
    /\ last.result = "LosingSide"
    /\ Losing(last.market, last.user)
    /\ LastMarket.settlements_count > 0
    /\ vault[last.market] > 0

\* C16: in a Resolved market whose winner_pool is 0, h_ratio_bps is 10000 and
\* no position is bound to the winning side: every settle on a position of the
\* market fails with LosingSide, and nothing was ever paid by a settle of that
\* market.
C16_EmptyWinnerPool ==
    \A id \in DOMAIN markets :
        (markets[id].status = "Resolved" /\ winner_pool(markets[id]) = 0) =>
            /\ markets[id].h_ratio_bps = BPS
            /\ markets[id].settled_amount = 0
            /\ markets[id].settlements_count = 0
            /\ \A u \in Users :
                  position_exists(positions[id][u]) =>
                      /\ ~is_winner(markets[id], positions[id][u])
                      /\ ~positions[id][u].settled
                      /\ \A oc \in BOOLEAN : settle_result(id, u, oc) = "LosingSide"

C16_Witness ==
    /\ last.op = "settle"
    /\ last.result = "LosingSide"
    /\ LastMarket.status = "Resolved"
    /\ winner_pool(LastMarket) = 0
    /\ loser_pool(LastMarket) > 0
    /\ vault[last.market] > 0

\* C17: create_market fails, creating no market and leaving next_market_id and
\* total_markets unchanged, when the question is longer than 256 bytes or the
\* deadline is not strictly greater than the current time; otherwise it
\* creates a market that is Open and Unresolved with both pools 0, h_ratio_bps
\* 10000, settled_amount 0 and settlements_count 0.
C17_CreateStep ==
    last'.op = "create_market" =>
        LET id == config.next_market_id
        IN  /\ \A q \in QuestionLens, d \in Deadlines :
                  create_market_result(q, d) = "Ok" <=> (q <= 256 /\ d > now)
            /\ last'.result # "Ok" =>
                  /\ DOMAIN markets' = DOMAIN markets
                  /\ UNCHANGED <<markets, vault, positions, tokens, config>>
            /\ last'.result = "Ok" =>
                  /\ id \notin DOMAIN markets
                  /\ DOMAIN markets' = DOMAIN markets \cup {id}
                  /\ \A i \in DOMAIN markets : markets'[i] = markets[i]
                  /\ markets'[id].deadline > now
                  /\ markets'[id].status = "Open"
                  /\ markets'[id].outcome = "Unresolved"
                  /\ markets'[id].yes_pool = 0
                  /\ markets'[id].no_pool = 0
                  /\ markets'[id].h_ratio_bps = 10000
                  /\ markets'[id].settled_amount = 0
                  /\ markets'[id].settlements_count = 0
                  /\ config'.next_market_id = config.next_market_id + 1
                  /\ config'.total_markets = config.total_markets + 1

C17_CreateValidates == [][C17_CreateStep]_vars

C17_Witness ==
    /\ last.op = "create_market"
    /\ last.result = "DeadlineInPast"
    /\ now >= 1
    /\ config.total_markets = 1
    /\ last.market = config.next_market_id

Instructions ==
    {"create_market", "place_bet", "resolve_market", "cancel_market", "settle", "claim_refund"}

U64 == 0..U64_MAX

\* C18: every instruction is atomic: when it returns an error the markets,
\* positions, config and vaults are exactly as before the call, also when the
\* error is an Overflow found after the funds were moved; no additive counter
\* wraps: each stays within its type and grows by exactly the amount moved.
C18_AtomicStep ==
    /\ (last'.op \in Instructions /\ last'.result # "Ok") =>
          UNCHANGED <<markets, vault, positions, tokens, config>>
    /\ config'.total_volume \in U64
    /\ config'.next_market_id \in U64
    /\ config'.total_markets \in U64
    /\ \A id \in DOMAIN markets' :
          /\ markets'[id].yes_pool \in U64
          /\ markets'[id].no_pool \in U64
          /\ markets'[id].settled_amount \in U64
          /\ markets'[id].settlements_count \in U64
          /\ vault'[id] \in U64
          /\ \A u \in Users : positions'[id][u].deposited \in U64
    /\ (last'.op = "place_bet" /\ last'.result = "Ok") =>
          LET id == last'.market
              u == last'.user
              amount == vault'[id] - vault[id]
          IN  /\ amount > 0
              /\ config'.total_volume = config.total_volume + amount
              /\ markets'[id].yes_pool + markets'[id].no_pool
                    = markets[id].yes_pool + markets[id].no_pool + amount
              /\ positions'[id][u].deposited = positions[id][u].deposited + amount
    /\ (last'.op = "settle" /\ last'.result = "Ok") =>
          LET id == last'.market
              payout == vault[id] - vault'[id]
          IN  /\ payout >= 0
              /\ markets'[id].settled_amount = markets[id].settled_amount + payout
              /\ markets'[id].settlements_count = markets[id].settlements_count + 1

C18_Atomic == [][C18_AtomicStep]_vars

C18_Witness ==
    /\ last.op = "place_bet"
    /\ last.result = "Overflow"
    /\ \A a \in WideAmounts :
          /\ vault[last.market] + a <= U64_MAX
          /\ config.total_volume + a > U64_MAX

\* The positions of a market bound to a side.
Bound(id, side) ==
    {u \in Users : position_exists(positions[id][u]) /\ positions[id][u].side = side}

\* C19: each side's pool equals the sum of deposited over the positions bound
\* to that side, also after a participant bets again naming the opposite side.
C19_PoolIsBoundStake ==
    \A id \in DOMAIN markets :
        /\ markets[id].yes_pool
              = SumOver(Bound(id, "Yes"), [u \in Users |-> positions[id][u].deposited])
        /\ markets[id].no_pool
              = SumOver(Bound(id, "No"), [u \in Users |-> positions[id][u].deposited])

\* C20: a position's side is the side named by the participant's first
\* accepted bet on the market and never changes afterwards; its deposited is
\* the sum of the participant's accepted bets: it changes only in an accepted
\* bet, by exactly the amount of the bet, and settle and claim_refund leave it
\* as it is.
C20_PositionStep ==
    (positions' # positions \/ staked' # staked) =>
        \A id \in DOMAIN markets' : \A u \in Users :
            LET p == IF id \in DOMAIN markets THEN positions[id][u] ELSE NoPosition
                q == positions'[id][u]
                bet == last'.op = "place_bet" /\ last'.result = "Ok"
                          /\ last'.market = id /\ last'.user = u
            IN  /\ q.deposited = staked'[id][u]
                /\ position_exists(p) => q.side = p.side
                /\ (~position_exists(p) /\ position_exists(q)) =>
                      /\ bet
                      /\ tokens'[id][u][q.side] > tokens[id][u][q.side]
                /\ q.deposited >= p.deposited
                /\ q.deposited # p.deposited => bet
                /\ bet => /\ q.deposited - p.deposited = vault'[id] - vault[id]
                          /\ q.deposited > p.deposited
                /\ last'.op \in {"settle", "claim_refund"} => q.deposited = p.deposited

C20_SideAndStake == [][C20_PositionStep]_vars

C20_Witness ==
    /\ last.op \in {"settle", "claim_refund"}
    /\ last.result = "Ok"
    /\ LastPosition.settled
    /\ LastPosition.deposited >= 2
    /\ LastPosition.deposited = staked[last.market][last.user]
    /\ \E s \in Sides : s # LastPosition.side /\ tokens[last.market][last.user][s] > 0

\* C21: yes_pool and no_pool change only in a successful place_bet on an Open
\* market, and only by increasing; in a Resolved or Cancelled market no step
\* (settle, claim_refund or a rejected call) changes either pool.
C21_PoolStep ==
    markets' # markets =>
        \A id \in DOMAIN markets :
            LET m == markets[id]
                n == markets'[id]
            IN  /\ n.yes_pool >= m.yes_pool
                /\ n.no_pool >= m.no_pool
                /\ (n.yes_pool # m.yes_pool \/ n.no_pool # m.no_pool) =>
                      /\ last'.op = "place_bet"
                      /\ last'.result = "Ok"
                      /\ last'.market = id
                      /\ m.status = "Open"
                /\ m.status \in Final =>
                      /\ n.yes_pool = m.yes_pool
                      /\ n.no_pool = m.no_pool

C21_PoolsFrozen == [][C21_PoolStep]_vars

C21_Witness ==
    /\ last.op = "settle"
    /\ last.result = "Ok"
    /\ LastMarket.status = "Resolved"
    /\ LastMarket.yes_pool > 0
    /\ LastMarket.no_pool > 0
    /\ vault[last.market] < LastMarket.yes_pool + LastMarket.no_pool
    /\ LastMarket.yes_pool + LastMarket.no_pool = accepted[last.market]

\* C22: h_ratio_bps is 10000 and outcome is Unresolved in every market that is
\* not Resolved; a successful resolve_market sets the outcome to Yes or No and
\* h_ratio_bps to the ratio of the vault balance it reads; afterwards no step
\* changes either, whatever later settles leave in the vault.
C22_OutcomeStep ==
    /\ \A id \in DOMAIN markets :
          LET m == markets[id]
          IN  /\ m.status # "Resolved" => (m.outcome = "Unresolved" /\ m.h_ratio_bps = 10000)
              /\ m.status = "Resolved" =>
                    /\ m.outcome \in {"Yes", "No"}
                    /\ m.h_ratio_bps = compute_h_ratio(m, resolve_vault[id])
    /\ markets' # markets =>
          \A id \in DOMAIN markets :
              LET m == markets[id]
                  n == markets'[id]
              IN  /\ m.status = "Resolved" =>
                        (n.outcome = m.outcome /\ n.h_ratio_bps = m.h_ratio_bps)
                  /\ (n.outcome # m.outcome \/ n.h_ratio_bps # m.h_ratio_bps) =>
                        /\ last'.op = "resolve_market"
                        /\ last'.result = "Ok"
                        /\ last'.market = id
                        /\ m.status = "Open"
                        /\ n.status = "Resolved"

C22_OutcomeFrozen == [][C22_OutcomeStep]_vars

C22_Witness ==
    /\ last.op = "settle"
    /\ last.result = "Ok"
    /\ LastMarket.h_ratio_bps < 10000
    /\ LastMarket.h_ratio_bps = compute_h_ratio(LastMarket, resolve_vault[last.market])
    /\ LastMarket.h_ratio_bps # compute_h_ratio(LastMarket, vault[last.market])

\* C23: a successful cancel_market changes only the market's status, to
\* Cancelled: the pools, outcome, h_ratio_bps, settled_amount and
\* settlements_count of the market, every position and every vault balance are
\* as before.
C23_CancelStep ==
    (last'.op = "cancel_market" /\ last'.result = "Ok") =>
        LET id == last'.market
        IN  /\ markets[id].status = "Open"
            /\ markets' = [markets EXCEPT ![id].status = "Cancelled"]
            /\ markets'[id].yes_pool = markets[id].yes_pool
            /\ markets'[id].no_pool = markets[id].no_pool
            /\ markets'[id].outcome = markets[id].outcome
            /\ markets'[id].h_ratio_bps = markets[id].h_ratio_bps
            /\ markets'[id].settled_amount = markets[id].settled_amount
            /\ markets'[id].settlements_count = markets[id].settlements_count
            /\ UNCHANGED <<vault, positions, tokens, config>>

C23_CancelFrame == [][C23_CancelStep]_vars

C23_Witness ==
    /\ last.op = "cancel_market"
    /\ last.result = "Ok"
    /\ LastMarket.status = "Cancelled"
    /\ LastMarket.yes_pool > 0
    /\ LastMarket.no_pool > 0
    /\ vault[last.market] = LastMarket.yes_pool + LastMarket.no_pool
    /\ \E u \in Users : positions[last.market][u].deposited > 0

\* C24: each created market gets the value next_market_id has at its creation
\* and the counter is then raised by one: the ids are strictly increasing in
\* creation order, no two markets share an id, and total_markets is the number
\* of successful creations.
C24_IdStep ==
    /\ \A i \in DOMAIN markets : markets[i].market_id = i
    /\ \A i \in DOMAIN markets, j \in DOMAIN markets :
          markets[i].market_id = markets[j].market_id => i = j
    /\ DOMAIN markets = 0..(config.next_market_id - 1)
    /\ config.total_markets = Cardinality(DOMAIN markets)
    /\ (last'.op = "create_market" /\ last'.result = "Ok") =>
          LET id == last'.market
          IN  /\ id = config.next_market_id
              /\ markets'[id].market_id = id
              /\ \A i \in DOMAIN markets : markets[i].market_id < markets'[id].market_id
              /\ DOMAIN markets' = DOMAIN markets \cup {id}
              /\ config'.next_market_id = id + 1
              /\ config'.total_markets = config.total_markets + 1
    /\ ~(last'.op = "create_market" /\ last'.result = "Ok") =>
          /\ DOMAIN markets' = DOMAIN markets
          /\ config'.next_market_id = config.next_market_id
          /\ config'.total_markets = config.total_markets

C24_MarketIds == [][C24_IdStep]_vars

C24_Witness ==
    /\ last.op = "create_market"
    /\ last.result = "Ok"
    /\ config.total_markets = 2
    /\ markets[0].creator # markets[1].creator
    /\ markets[0].status = "Cancelled"
    /\ markets[1].market_id = 1

\* C25: no market is ever in status Closed or Settled: a market stays Open
\* when its deadline passes and stays Resolved when every winning position has
\* been settled.
C25_NeverClosedOrSettled ==
    \A id \in DOMAIN markets :
        /\ markets[id].status \notin {"Closed", "Settled"}
        /\ markets[id].status \in {"Open", "Resolved", "Cancelled"}
        /\ (markets[id].outcome = "Unresolved" /\ markets[id].status # "Cancelled") =>
              markets[id].status = "Open"
        /\ markets[id].settlements_count > 0 => markets[id].status = "Resolved"

C25_Witness ==
    /\ last.op = "settle"
    /\ last.result = "Ok"
    /\ now >= LastMarket.deadline
    /\ LastMarket.status = "Resolved"
    /\ Winners(last.market) # {}
    /\ \A u \in Winners(last.market) : positions[last.market][u].settled

\* The positions of a market closed by settle: settle succeeds only in a
\* Resolved market, claim_refund only in a Cancelled one.
ClosedBySettle(id) ==
    {u \in Users : markets[id].status = "Resolved" /\ positions[id][u].settled}

\* C26: settled_amount is the sum of payout over the positions closed by
\* settle and settlements_count is their number; claim_refund changes neither:
\* both are 0 in a Cancelled market, whatever has been refunded.
C26_SettlementTotals ==
    \A id \in DOMAIN markets :
        /\ markets[id].settled_amount
              = SumOver(ClosedBySettle(id), [u \in Users |-> positions[id][u].payout])
        /\ markets[id].settlements_count = Cardinality(ClosedBySettle(id))
        /\ markets[id].status = "Cancelled" =>
              (markets[id].settled_amount = 0 /\ markets[id].settlements_count = 0)

C26_Witness ==
    /\ last.op = "settle"
    /\ last.result = "Ok"
    /\ LastMarket.settlements_count = 2
    /\ LastMarket.settled_amount
          = SumOver(Bettors, [u \in Users |-> positions[last.market][u].payout])
    /\ \A u \in Bettors : positions[last.market][u].payout > 0

\* The positions of a market that hold a stake not yet paid back.
Unrefunded(id) ==
    {u \in Users : position_exists(positions[id][u]) /\ ~positions[id][u].settled}

\* C27: with the vault changed only by the program's instructions, the vault
\* balance of an Open or Cancelled market is the sum of deposited over the
\* positions not yet refunded: no claim_refund overdraws the vault, every
\* unsettled position of a Cancelled market can be refunded in full whatever
\* was refunded before, and once all are refunded the vault is back at its
\* balance before the first bet.
C27_VaultIsDeposits ==
    \A id \in DOMAIN markets :
        /\ vault[id] >= 0
        /\ markets[id].status \in {"Open", "Cancelled"} =>
              /\ vault[id]
                    = SumOver(Unrefunded(id), [u \in Users |-> positions[id][u].deposited])
              /\ Unrefunded(id) = {} => vault[id] = 0
        /\ markets[id].status = "Cancelled" =>
              \A u \in Unrefunded(id) :
                  /\ positions[id][u].deposited <= vault[id]
                  /\ \A mint \in Mints : claim_refund_result(id, u, mint) # "InsufficientFunds"
                  /\ \E mint \in Mints : claim_refund_result(id, u, mint) = "Ok"

C27_Witness ==
    /\ last.op = "claim_refund"
    /\ last.result = "Ok"
    /\ LastMarket.status = "Cancelled"
    /\ \A u \in Bettors : positions[last.market][u].settled
    /\ \A u \in Bettors : positions[last.market][u].payout > 0
    /\ Unrefunded(last.market) = {}
    /\ vault[last.market] = 0

\* A Resolved market with nothing staked on the side that won.
NoWinner(id) == markets[id].status = "Resolved" /\ winner_pool(markets[id]) = 0

\* C28: once a market is Resolved with winner_pool = 0 no instruction
\* withdraws from its vault: every settle, claim_refund and cancel_market on
\* it fails (claim_refund on a position and cancel_market by the creator or
\* the oracle because of the status), and the vault holds the whole losing
\* pool in every later state.
C28_LockedStep ==
    \A id \in DOMAIN markets :
        NoWinner(id) =>
            /\ vault[id] = loser_pool(markets[id])
            /\ vault'[id] = vault[id]
            /\ markets'[id] = markets[id]
            /\ (last'.market = id /\ last'.op \in {"settle", "claim_refund", "cancel_market"}) =>
                  /\ last'.result # "Ok"
                  /\ (last'.op = "claim_refund" /\ position_exists(positions[id][last'.user])) =>
                        last'.result = "InvalidMarketStatus"
                  /\ (last'.op = "cancel_market"
                         /\ last'.user \in {markets[id].creator, markets[id].oracle}) =>
                        last'.result = "CannotCancelResolved"
                  /\ (last'.op = "settle" /\ position_exists(positions[id][last'.user])) =>
                        last'.result = "LosingSide"

C28_FundsLocked == [][C28_LockedStep]_vars

C28_Witness ==
    /\ last.op = "claim_refund"
    /\ last.result = "InvalidMarketStatus"
    /\ NoWinner(last.market)
    /\ loser_pool(LastMarket) >= 2
    /\ vault[last.market] = loser_pool(LastMarket)
    /\ LastPosition.deposited > 0

====
